---- MODULE Spec2Model ----
(***************************************************************************)
(* Model of pijama's scope analysis pass (RecursionChecker, a NodeVisitor  *)
(* over the located AST) and of the driver pipeline `run`.                 *)
(*                                                                         *)
(* The recursive traversal of the visitor is unfolded into a state machine *)
(* whose control state `todo` is the list of pending visits, i.e. the      *)
(* call stack of the Rust code read from the innermost frame outwards.     *)
(***************************************************************************)
EXTENDS Integers, Sequences, FiniteSets, TLC

\* ------------------------------------------------------------------ bounds

\* Largest number of AST nodes in a function body handed to RecursionChecker::run.
MaxNodes == 3

\* Largest size of a program handed to the pipeline `run` (see PLevel).
MaxTerm == 4

\* Largest number of arguments in the calls of a defined function (see CallPrograms).
MaxArgs == 2

\* Largest number of function applications one evaluation may perform.
MaxFuel == 3

\* ------------------------------------------------------------------ AST

\* Name<'a>(&'a str): identifiers, compared by string equality.
Names == {"f", "g"}

\* Parameter lists of the function definitions that are explored.
ArgLists == {<<>>, <<"f">>}

\* Node constructors.  Every node is a record of the same shape:
\*   kind : variant of Node,  name : the bound/defined/referenced name,
\*   args : parameter names (FnDef),  sub : child nodes in visiting order
\*          (LetBind: the bound expression; FnDef: the body block;
\*           Call: the callee followed by the arguments;
\*           Cond: its three blocks, each wrapped as a "Block" record).
NameNode(n) == [kind |-> "Name", name |-> n, args |-> <<>>, sub |-> <<>>]

LiteralNode == [kind |-> "Literal", name |-> "", args |-> <<>>, sub |-> <<>>]

LetBind(n, e) == [kind |-> "LetBind", name |-> n, args |-> <<>>, sub |-> <<e>>]

FnDef(n, a, blk) == [kind |-> "FnDef", name |-> n, args |-> a, sub |-> blk]

Call(fargs) == [kind |-> "Call", name |-> "", args |-> <<>>, sub |-> fargs]

BlockOf(blk) == [kind |-> "Block", name |-> "", args |-> <<>>, sub |-> blk]

Cond(c, t, e) ==
    [kind |-> "Cond", name |-> "", args |-> <<>>, sub |-> <<BlockOf(c), BlockOf(t), BlockOf(e)>>]

\* ------------------------------------------------------------------ enumeration

\* The explored inputs are enumerated as sequences (no element twice).
RECURSIVE SetToSeq(_)
SetToSeq(S) == IF S = {} THEN <<>> ELSE LET x == CHOOSE y \in S : TRUE
                                        IN <<x>> \o SetToSeq(S \ {x})

Map1(A, F(_)) == [i \in 1..Len(A) |-> F(A[i])]

Map2(A, B, F(_, _)) ==
    [i \in 1..(Len(A) * Len(B)) |->
        F(A[((i - 1) \div Len(B)) + 1], B[((i - 1) % Len(B)) + 1])]

RECURSIVE Flat(_, _, _)
Flat(F(_), lo, hi) == IF lo > hi THEN <<>> ELSE F(lo) \o Flat(F, lo + 1, hi)

Cons(h, t) == <<h>> \o t

One(h) == <<h>>

Pair(a, b) == <<a, b>>

\* The ways of splitting n AST nodes over the three blocks of a Cond, whose
\* condition is never empty.
Splits(n) == SetToSeq({s \in (1..n) \X (0..n) \X (0..n) : s[1] + s[2] + s[3] = n})

NameNodes == Map1(SetToSeq(Names), NameNode)

Binder2(x, a) == [name |-> x, args |-> a]

LetOf(x, e) == LetBind(x, e)

FnDefOf(xa, b) == FnDef(xa.name, xa.args, b)

CondOf(ct, e) == Cond(ct[1], ct[2], e)

\* A level of the table below holds the nodes made of exactly n AST nodes and the
\* blocks (Vec<Located<Node>>) whose nodes add up to n; level n is entry n + 1.
Level0 == [nodes |-> <<>>, blocks |-> <<<<>>>>]

Level(n, tab) ==
    LET CondsAt(i) ==
            LET s == Splits(n - 1)[i]
            IN Map2(Map2(tab[s[1] + 1].blocks, tab[s[2] + 1].blocks, Pair),
                    tab[s[3] + 1].blocks, CondOf)
        nodes ==
            (IF n = 1 THEN NameNodes \o <<LiteralNode>> ELSE <<>>)
            \o Map2(SetToSeq(Names), tab[n].nodes, LetOf)
            \o Map2(Map2(SetToSeq(Names), SetToSeq(ArgLists), Binder2), tab[n].blocks, FnDefOf)
            \o (IF n = 1 THEN <<>> ELSE Map1(tab[n].blocks, Call))
            \o Flat(CondsAt, 1, Len(Splits(n - 1)))
        BlocksAt(k) == Map2(tab[k + 1].nodes, tab[n - k + 1].blocks, Cons)
    IN [nodes |-> nodes,
        blocks |-> Map1(nodes, One) \o Flat(BlocksAt, 1, n - 1)]

RECURSIVE Table(_, _)
Table(n, tab) == IF n > MaxNodes THEN tab ELSE Table(n + 1, Append(tab, Level(n, tab)))

BodyTable == Table(1, <<Level0>>)

BodiesOfSize(n) == BodyTable[n + 1].blocks

\* The function bodies explored.
Bodies == Flat(BodiesOfSize, 0, MaxNodes)

\* ------------------------------------------------------------------ state

VARIABLES
    name,         \* RecursionChecker.name: the target function's name
    body,         \* the body passed to RecursionChecker::run
    is_rec,       \* RecursionChecker.is_rec
    is_shadowed,  \* RecursionChecker.is_shadowed
    stack,        \* RecursionChecker.stack
    todo,         \* pending visits (call stack of the traversal)
    pc,           \* "visiting" | "done" | "assert_failed" | "pop_panicked"
    result,       \* value returned by run ("none" until it returns)
    last,         \* the visitor method executed by the last step
    input,        \* run: the source text, as whether it parses and to what
    stage,        \* run: the stage to execute next, or "returned"
    ast,          \* run: the parsed block
    mir,          \* run: the MIR term
    lir,          \* run: the LIR term
    res,          \* run: the LangResult returned
    ran           \* run: the stages executed so far, in order

cvars == <<name, body, is_rec, is_shadowed, stack, todo, pc, result, last>>

rvars == <<input, stage, ast, mir, lir, res, ran>>

vars == <<cvars, rvars>>

Frame(op, arg) == [op |-> op, arg |-> arg]

\* ------------------------------------------------------------------ helpers

\* Variants of the helpers below, each with one plausible slip of the code.
push_scope_fresh(stk, sh) == Append(stk, FALSE)

push_scope_skips(stk, sh) == stk

\* push_scope: the stack after pushing the current shadowed status.
push_scope(stk, sh) == Append(stk, sh)

pop_scope_flag_keeps(stk, sh) == sh

\* pop_scope: the shadowed status restored from the stack ...
pop_scope_flag(stk, sh) == stk[Len(stk)]

pop_scope_stack_keeps(stk) == stk

\* ... and the stack left behind.
pop_scope_stack(stk) == SubSeq(stk, 1, Len(stk) - 1)

name_is_rec_ignores_shadow(rec, sh, n, target) == IF n = target THEN TRUE ELSE rec

name_is_rec_overwrites(rec, sh, n, target) == ~sh /\ n = target

\* visit_name: the new is_rec.
name_is_rec(rec, sh, n, target) == IF ~sh /\ n = target THEN TRUE ELSE rec

let_bind_shadowed_resets(sh, n, target) == n = target

\* visit_let_bind: the new is_shadowed.
let_bind_shadowed(sh, n, target) == IF n = target THEN TRUE ELSE sh

\* visit_fn_def: the new is_shadowed.
fn_def_shadowed(sh, n, target) == IF n = target THEN TRUE ELSE sh

\* super_block: visit every node of the block in order.
super_block(blk) == [i \in 1..Len(blk) |-> Frame("visit_node", blk[i])]

\* super_let_bind: visit the bound name, then the bound expression.
super_let_bind(n, e) == <<Frame("visit_name", n), Frame("visit_node", e)>>

\* super_fn_def: visit the name, the parameter names, then the body block.
super_fn_def(n, a, blk) ==
    <<Frame("visit_name", n)>>
    \o [i \in 1..Len(a) |-> Frame("visit_name", a[i])]
    \o <<Frame("visit_block", blk)>>

\* super_call: visit the callee, then each argument.
super_call(fargs) == [i \in 1..Len(fargs) |-> Frame("visit_node", fargs[i])]

\* super_cond: visit the condition, the then-block and the else-block.
super_cond(blks) == [i \in 1..Len(blks) |-> Frame("visit_block", blks[i].sub)]

\* ------------------------------------------------------------------ types

\* Ty: Bool | Int | Unit | Arrow(Box<Ty>, Box<Ty>).
TInt == [tag |-> "Int"]

TBool == [tag |-> "Bool"]

TUnit == [tag |-> "Unit"]

Arrow(a, b) == [tag |-> "Arrow", from |-> a, to |-> b]

\* TyError (the variants the explored programs can raise).
Mismatch(expected, found) == [tag |-> "Mismatch", expected |-> expected, found |-> found]

Unbound(n) == [tag |-> "Unbound", name |-> n]

ExpectedFn(found) == [tag |-> "ExpectedFn", found |-> found]

\* ------------------------------------------------------------------ programs

\* Nodes of the programs given to `run`.  An optional field is a sequence of
\* length 0 or 1.
AstLiteral(t, v) == [kind |-> "Literal", ty |-> t, val |-> v]

AstName(n) == [kind |-> "Name", name |-> n]

AstLetBind(n, ann, e) == [kind |-> "LetBind", name |-> n, ann |-> ann, value |-> e]

AstFnDef(nm, ps, blk, ret) ==
    [kind |-> "FnDef", name |-> nm, params |-> ps, body |-> blk, ret |-> ret]

AstFnRecDef(n, ps, blk, ret) ==
    [kind |-> "FnRecDef", name |-> <<n>>, params |-> ps, body |-> blk, ret |-> <<ret>>]

\* A call as the parser `call` builds it: Node::Call(Box::new(func), args), where
\* func is a name or any node written in brackets (a function literal, a literal),
\* and args are the argument nodes.
AstCall(c, as) == [kind |-> "Call", callee |-> c, args |-> as]

Binding(n, t) == [name |-> n, ty |-> t]

\* The alphabets the explored programs are built from.
PNames == <<"f", "x">>

Literals == <<AstLiteral(TInt, 1), AstLiteral(TBool, 1)>>

NameLeaves == Map1(PNames, AstName)

\* The function definitions explored, each applied to its body block:
\*   fn f(x: Int): Int do .. end,            fn (x: Int) do .. end,
\*   fn rec f(x: Int): Int do .. end,        fn f(x: Int): Bool do .. end,
\*   fn f(x: Int, y: Bool): Int do .. end
FnShapes ==
    <<[rec |-> FALSE, name |-> <<"f">>, params |-> <<Binding("x", TInt)>>, ret |-> <<TInt>>],
      [rec |-> FALSE, name |-> <<>>, params |-> <<Binding("x", TInt)>>, ret |-> <<>>],
      [rec |-> TRUE, name |-> <<"f">>, params |-> <<Binding("x", TInt)>>, ret |-> <<TInt>>],
      [rec |-> FALSE, name |-> <<"f">>, params |-> <<Binding("x", TInt)>>, ret |-> <<TBool>>],
      [rec |-> FALSE, name |-> <<"f">>,
       params |-> <<Binding("x", TInt), Binding("y", TBool)>>, ret |-> <<TInt>>]>>

Fn(shape, blk) ==
    IF shape.rec THEN AstFnRecDef(shape.name[1], shape.params, blk, shape.ret[1])
    ELSE AstFnDef(shape.name, shape.params, blk, shape.ret)

\* let x = e, without annotation.
LetX(e) == AstLetBind("x", <<>>, e)

\* Sizes: one per node, except that a bare name in callee position is counted
\* with its call.  A level of the table below holds the nodes of one size that are
\* not bare names (inner), all nodes of that size (nodes) and the blocks whose
\* nodes add up to that size (blocks); level n is entry n + 1.
PLevel0 == [inner |-> <<>>, nodes |-> <<>>, blocks |-> <<<<>>>>]

PLevel(n, tab) ==
    LET CallsAt(k) ==
            Map2(IF k = 0 THEN NameLeaves ELSE tab[k + 1].inner, tab[n - k].blocks, AstCall)
        inner ==
            (IF n = 1 THEN Literals ELSE <<>>)
            \o Map1(tab[n].nodes, LetX)
            \o (IF n = 1 THEN <<>> ELSE Map2(FnShapes, tab[n].blocks, Fn))
            \o Flat(CallsAt, 0, n - 2)
        nodes == IF n = 1 THEN NameLeaves \o inner ELSE inner
        BlocksAt(k) == Map2(tab[k + 1].nodes, tab[n - k + 1].blocks, Cons)
    IN [inner |-> inner,
        nodes |-> nodes,
        blocks |-> Map1(nodes, One) \o Flat(BlocksAt, 1, n - 1)]

RECURSIVE PTable(_, _)
PTable(n, tab) == IF n > MaxTerm THEN tab ELSE PTable(n + 1, Append(tab, PLevel(n, tab)))

ProgramTable == PTable(1, <<PLevel0>>)

ProgramsOfSize(n) == ProgramTable[n + 1].blocks

\* The leaves: literals and bare names.
Leaves == Literals \o NameLeaves

\* The argument lists of k leaves.
RECURSIVE ArgsOfLen(_)
ArgsOfLen(k) == IF k = 0 THEN <<<<>>>> ELSE Map2(Leaves, ArgsOfLen(k - 1), Cons)

\* A function applied to arguments: the call of a function literal, or the
\* definition of a named function followed by the call of its name.
CallProgram(def, as) ==
    IF def.name = <<>> THEN <<AstCall(def, as)>>
    ELSE <<def, AstCall(AstName(def.name[1]), as)>>

\* Every function shape with a one-leaf body, applied to 1..MaxArgs leaves.
CallPrograms ==
    Map2(Map2(FnShapes, Map1(Leaves, One), Fn), Flat(ArgsOfLen, 1, MaxArgs), CallProgram)

\* The programs explored: all programs of up to MaxTerm nodes, and the calls above.
Programs == Flat(ProgramsOfSize, 1, MaxTerm) \o CallPrograms

\* ------------------------------------------------------------------ MIR

MirLit(t, v) == [k |-> "Lit", ty |-> t, val |-> v]

MirUnit == MirLit(TUnit, 0)

MirVar(n) == [k |-> "Var", name |-> n]

MirAbs(n, t, ret, b) == [k |-> "Abs", name |-> n, ty |-> t, ret |-> ret, body |-> b]

MirApp(f, a) == [k |-> "App", fn |-> f, arg |-> a]

MirLet(rec, n, ann, v, b) ==
    [k |-> "Let", rec |-> rec, name |-> n, ann |-> ann, value |-> v, body |-> b]

MirSeq(a, b) == [k |-> "Seq", first |-> a, rest |-> b]

MOk(t) == [ok |-> TRUE, term |-> t]

MErr(e) == [ok |-> FALSE, err |-> e]

\* The nested abstraction of a function with the given parameters; the return
\* annotation stays with the innermost one.
RECURSIVE mk_abs(_, _, _)
mk_abs(ps, ret, b) ==
    IF Len(ps) = 1 THEN MirAbs(ps[1].name, ps[1].ty, ret, b)
    ELSE MirAbs(ps[1].name, ps[1].ty, <<>>, mk_abs(Tail(ps), ret, b))

\* Arrow(param types..., return type).
RECURSIVE fn_ty(_, _)
fn_ty(ps, ret) ==
    Arrow(ps[1].ty, IF Len(ps) = 1 THEN ret ELSE fn_ty(Tail(ps), ret))

ParamNames(ps) == {ps[i].name : i \in 1..Len(ps)}

RECURSIVE lower_block(_, _), lower_node(_, _), lower_args(_, _, _)
\* mir::Term::from_ast on a node: names are resolved against the names in scope,
\* a call becomes nested applications.
lower_node(scope, nd) ==
    CASE nd.kind = "Literal" -> MOk(MirLit(nd.ty, nd.val))
      [] nd.kind = "Name" ->
            IF nd.name \in scope THEN MOk(MirVar(nd.name)) ELSE MErr(Unbound(nd.name))
      [] nd.kind = "Call" ->
            LET c == lower_node(scope, nd.callee)
            IN IF c.ok THEN lower_args(scope, c.term, nd.args) ELSE c
      [] nd.kind = "FnDef" /\ nd.name = <<>> ->
            LET b == lower_block(scope \cup ParamNames(nd.params), nd.body)
            IN IF b.ok THEN MOk(mk_abs(nd.params, nd.ret, b.term)) ELSE b
      [] OTHER -> lower_block(scope, <<nd>>)

lower_args(scope, f, as) ==
    IF as = <<>> THEN MOk(f)
    ELSE LET a == lower_node(scope, Head(as))
         IN IF a.ok THEN lower_args(scope, MirApp(f, a.term), Tail(as)) ELSE a

\* mir::Term::from_ast on a block: a binder scopes over the rest of the block, the
\* value of the block is that of its last node.
lower_block(scope, blk) ==
    IF blk = <<>> THEN MOk(MirUnit)
    ELSE
      LET h == Head(blk)
          r == Tail(blk)
      IN
      CASE h.kind = "LetBind" ->
            LET v == lower_node(scope, h.value)
                b == IF r = <<>> THEN MOk(MirUnit) ELSE lower_block(scope \cup {h.name}, r)
            IN IF ~v.ok THEN v
               ELSE IF ~b.ok THEN b
               ELSE MOk(MirLet(FALSE, h.name, h.ann, v.term, b.term))
        [] h.kind = "FnDef" /\ h.name # <<>> ->
            LET f == h.name[1]
                v == lower_block(scope \cup ParamNames(h.params), h.body)
                b == IF r = <<>> THEN MOk(MirVar(f)) ELSE lower_block(scope \cup {f}, r)
            IN IF ~v.ok THEN v
               ELSE IF ~b.ok THEN b
               ELSE MOk(MirLet(FALSE, f, <<>>, mk_abs(h.params, h.ret, v.term), b.term))
        [] h.kind = "FnRecDef" ->
            LET f == h.name[1]
                v == lower_block(scope \cup {f} \cup ParamNames(h.params), h.body)
                b == IF r = <<>> THEN MOk(MirVar(f)) ELSE lower_block(scope \cup {f}, r)
            IN IF ~v.ok THEN v
               ELSE IF ~b.ok THEN b
               ELSE MOk(MirLet(TRUE, f, <<fn_ty(h.params, h.ret[1])>>,
                               mk_abs(h.params, h.ret, v.term), b.term))
        [] OTHER ->
            LET e == lower_node(scope, h)
                b == lower_block(scope, r)
            IN IF ~e.ok THEN e
               ELSE IF r = <<>> THEN e
               ELSE IF ~b.ok THEN b
               ELSE MOk(MirSeq(e.term, b.term))

from_ast(blk) == lower_block({}, blk)

\* ------------------------------------------------------------------ type checker

TOk(t) == [ok |-> TRUE, ty |-> t]

TErr(e) == [ok |-> FALSE, err |-> e]

\* The type bound to a name, innermost binding first.
lookup(env, n) ==
    LET hits == {i \in 1..Len(env) : env[i].name = n}
    IN IF hits = {} THEN TErr(Unbound(n))
       ELSE TOk(env[CHOOSE i \in hits : \A j \in hits : j <= i].ty)

\* The error raised when an argument of type `found` meets a parameter of type
\* `expected`, or a body of type `found` a declared type `expected`.
mismatch_swapped(expected, found) == TErr(Mismatch(found, expected))

mismatch(expected, found) == TErr(Mismatch(expected, found))

\* The type of a term.  Functions are curried (Ty::Arrow has one parameter), so a
\* call checks its arguments one application at a time, in order; TyError has no
\* variant for a wrong number of arguments: too few arguments leave a function
\* type, one argument too many meets a callee that is not a function (ExpectedFn).
RECURSIVE type_of(_, _)
type_of(env, t) ==
    CASE t.k = "Lit" -> TOk(t.ty)
      [] t.k = "Var" -> lookup(env, t.name)
      [] t.k = "Abs" ->
            LET b == type_of(Append(env, Binding(t.name, t.ty)), t.body)
            IN IF ~b.ok THEN b
               ELSE IF t.ret # <<>> /\ t.ret[1] # b.ty THEN mismatch(t.ret[1], b.ty)
               ELSE TOk(Arrow(t.ty, b.ty))
      [] t.k = "App" ->
            LET f == type_of(env, t.fn)
                a == type_of(env, t.arg)
            IN IF ~f.ok THEN f
               ELSE IF f.ty.tag # "Arrow" THEN TErr(ExpectedFn(f.ty))
               ELSE IF ~a.ok THEN a
               ELSE IF a.ty # f.ty.from THEN mismatch(f.ty.from, a.ty)
               ELSE TOk(f.ty.to)
      [] t.k = "Let" ->
            LET v == IF t.rec THEN type_of(Append(env, Binding(t.name, t.ann[1])), t.value)
                     ELSE type_of(env, t.value)
            IN IF ~v.ok THEN v
               ELSE IF t.ann # <<>> /\ t.ann[1] # v.ty THEN mismatch(t.ann[1], v.ty)
               ELSE type_of(Append(env, Binding(t.name, v.ty)), t.body)
      [] t.k = "Seq" ->
            LET a == type_of(env, t.first)
            IN IF ~a.ok THEN a ELSE type_of(env, t.rest)

ty_check(t) == type_of(<<>>, t)

\* ------------------------------------------------------------------ LIR

LirLit(t, v) == [k |-> "Lit", ty |-> t, val |-> v]

LirVar(i) == [k |-> "Var", index |-> i]

\* What a name without a binder lowers to: evaluating it is an unbound-name fault.
LirUnbound == [k |-> "Unbound"]

LirAbs(b) == [k |-> "Abs", body |-> b]

LirApp(f, a) == [k |-> "App", fn |-> f, arg |-> a]

LirLet(rec, v, b) == [k |-> "Let", rec |-> rec, value |-> v, body |-> b]

LirSeq(a, b) == [k |-> "Seq", first |-> a, rest |-> b]

\* The slot of a name: the number of binders between its use and its binder.
slot(scope, n) ==
    LET hits == {i \in 1..Len(scope) : scope[i] = n}
    IN IF hits = {} THEN LirUnbound
       ELSE LirVar(Len(scope) - (CHOOSE i \in hits : \A j \in hits : j <= i))

RECURSIVE to_lir(_, _)
to_lir(scope, t) ==
    CASE t.k = "Lit" -> LirLit(t.ty, t.val)
      [] t.k = "Var" -> slot(scope, t.name)
      [] t.k = "Abs" -> LirAbs(to_lir(Append(scope, t.name), t.body))
      [] t.k = "App" -> LirApp(to_lir(scope, t.fn), to_lir(scope, t.arg))
      [] t.k = "Let" ->
            LirLet(t.rec,
                   to_lir(IF t.rec THEN Append(scope, t.name) ELSE scope, t.value),
                   to_lir(Append(scope, t.name), t.body))
      [] t.k = "Seq" -> LirSeq(to_lir(scope, t.first), to_lir(scope, t.rest))

from_mir(t) == to_lir(<<>>, t)

\* ------------------------------------------------------------------ machine

VLit(t, v) == [tag |-> "Lit", ty |-> t, val |-> v]

\* A closure: code and captured environment; `rec` closures find themselves in
\* the slot just outside their parameter.
VClo(rec, b, env) == [tag |-> "Clo", rec |-> rec, body |-> b, env |-> env]

Fault(why) == [tag |-> "Fault", why |-> why]

RECURSIVE eval(_, _, _)
eval(env, t, fuel) ==
    CASE t.k = "Lit" -> VLit(t.ty, t.val)
      [] t.k = "Unbound" -> Fault("unbound")
      [] t.k = "Var" ->
            IF t.index < Len(env) THEN env[Len(env) - t.index] ELSE Fault("unbound")
      [] t.k = "Abs" -> VClo(FALSE, t.body, env)
      [] t.k = "App" ->
            LET f == eval(env, t.fn, fuel)
                a == eval(env, t.arg, fuel)
            IN IF f.tag = "Fault" THEN f
               ELSE IF f.tag # "Clo" THEN Fault("arity")
               ELSE IF a.tag = "Fault" THEN a
               ELSE IF fuel = 0 THEN Fault("fuel")
               ELSE eval(Append(IF f.rec THEN Append(f.env, f) ELSE f.env, a),
                         f.body, fuel - 1)
      [] t.k = "Let" ->
            LET v == IF t.rec /\ t.value.k = "Abs" THEN VClo(TRUE, t.value.body, env)
                     ELSE eval(env, t.value, fuel)
            IN IF v.tag = "Fault" THEN v ELSE eval(Append(env, v), t.body, fuel)
      [] t.k = "Seq" ->
            LET a == eval(env, t.first, fuel)
            IN IF a.tag = "Fault" THEN a ELSE eval(env, t.rest, fuel)

evaluate(t) == eval(<<>>, t, MaxFuel)

\* A name without a binder somewhere in a LIR term.
RECURSIVE HasUnbound(_)
HasUnbound(t) ==
    CASE t.k = "Unbound" -> TRUE
      [] t.k = "Abs" -> HasUnbound(t.body)
      [] t.k = "App" -> HasUnbound(t.fn) \/ HasUnbound(t.arg)
      [] t.k = "Let" -> HasUnbound(t.value) \/ HasUnbound(t.body)
      [] t.k = "Seq" -> HasUnbound(t.first) \/ HasUnbound(t.rest)
      [] OTHER -> FALSE

\* ------------------------------------------------------------------ run

Stages == <<"parse", "from_ast", "ty_check", "from_mir", "evaluate">>

Pending == [state |-> "pending"]

Ok(v) == [state |-> "ok", val |-> v]

Err(e) == [state |-> "err", err |-> e]

\* The `?` after each fallible stage: on an error `run` returns it at once.
after_parse_continues(ok) == "from_ast"

after_parse(ok) == IF ok THEN "from_ast" ELSE "returned"

after_from_ast(ok) == IF ok THEN "ty_check" ELSE "returned"

after_ty_check_continues(ok) == "from_mir"

after_ty_check(ok) == IF ok THEN "from_mir" ELSE "returned"

\* ------------------------------------------------------------------ actions

\* The pipeline variables while only the recursion checker is running.
RunIdle ==
    /\ input = [ok |-> FALSE, prog |-> <<>>]
    /\ stage = "returned"
    /\ ast = <<>>
    /\ mir = MirUnit
    /\ lir = LirLit(TUnit, 0)
    /\ res = Pending
    /\ ran = <<>>

\* RecursionChecker::run up to and including the call of visit_block(body).
Init ==
    /\ name \in Names
    /\ \E i \in 1..Len(Bodies) : body = Bodies[i]
    /\ is_rec = FALSE
    /\ is_shadowed = FALSE
    /\ stack = <<>>
    /\ todo = <<Frame("visit_block", body)>>
    /\ pc = "visiting"
    /\ result = "none"
    /\ last = "run"
    /\ RunIdle

Head_is(op) == pc = "visiting" /\ todo # <<>> /\ Head(todo).op = op

Node_is(kind) == Head_is("visit_node") /\ Head(todo).arg.kind = kind

\* visit_block: push_scope, super_block, and (once the nodes are visited) pop_scope.
\* The pop_scope frame remembers the shadowed status on entry (not used by the code).
visit_block ==
    /\ Head_is("visit_block")
    /\ stack' = push_scope(stack, is_shadowed)
    /\ todo' = super_block(Head(todo).arg)
               \o <<Frame("pop_scope", is_shadowed)>> \o Tail(todo)
    /\ last' = "visit_block"
    /\ UNCHANGED <<name, body, is_rec, is_shadowed, pc, result, rvars>>

\* The tail of visit_block: pop_scope, which panics on an empty stack.
pop_scope ==
    /\ Head_is("pop_scope")
    /\ last' = "pop_scope"
    /\ IF stack = <<>>
       THEN /\ pc' = "pop_panicked"
            /\ UNCHANGED <<is_shadowed, stack, todo>>
       ELSE /\ is_shadowed' = pop_scope_flag(stack, is_shadowed)
            /\ stack' = pop_scope_stack(stack)
            /\ todo' = Tail(todo)
            /\ pc' = pc
    /\ UNCHANGED <<name, body, is_rec, result, rvars>>

\* visit_name, reached from super_node (a Name node) or from a binder's name.
visit_name ==
    /\ \/ Node_is("Name")
       \/ Head_is("visit_name")
    /\ LET n == IF Head(todo).op = "visit_name" THEN Head(todo).arg
                ELSE Head(todo).arg.name
       IN is_rec' = name_is_rec(is_rec, is_shadowed, n, name)
    /\ todo' = Tail(todo)
    /\ last' = "visit_name"
    /\ UNCHANGED <<name, body, is_shadowed, stack, pc, result, rvars>>

\* visit_literal: the default visitor, nothing to descend into.
visit_literal ==
    /\ Node_is("Literal")
    /\ todo' = Tail(todo)
    /\ last' = "visit_literal"
    /\ UNCHANGED <<name, body, is_rec, is_shadowed, stack, pc, result, rvars>>

visit_let_bind ==
    /\ Node_is("LetBind")
    /\ LET nd == Head(todo).arg
       IN /\ is_shadowed' = let_bind_shadowed(is_shadowed, nd.name, name)
          /\ todo' = super_let_bind(nd.name, nd.sub[1]) \o Tail(todo)
    /\ last' = "visit_let_bind"
    /\ UNCHANGED <<name, body, is_rec, stack, pc, result, rvars>>

visit_fn_def ==
    /\ Node_is("FnDef")
    /\ LET nd == Head(todo).arg
       IN /\ is_shadowed' = fn_def_shadowed(is_shadowed, nd.name, name)
          /\ todo' = super_fn_def(nd.name, nd.args, nd.sub) \o Tail(todo)
    /\ last' = "visit_fn_def"
    /\ UNCHANGED <<name, body, is_rec, stack, pc, result, rvars>>

\* visit_call: the default visitor.
visit_call ==
    /\ Node_is("Call")
    /\ todo' = super_call(Head(todo).arg.sub) \o Tail(todo)
    /\ last' = "visit_call"
    /\ UNCHANGED <<name, body, is_rec, is_shadowed, stack, pc, result, rvars>>

\* visit_cond: the default visitor.
visit_cond ==
    /\ Node_is("Cond")
    /\ todo' = super_cond(Head(todo).arg.sub) \o Tail(todo)
    /\ last' = "visit_cond"
    /\ UNCHANGED <<name, body, is_rec, is_shadowed, stack, pc, result, rvars>>

\* RecursionChecker::run after visit_block(body) returned: the assertion and the result.
run_return ==
    /\ pc = "visiting"
    /\ todo = <<>>
    /\ IF stack = <<>>
       THEN pc' = "done" /\ result' = is_rec
       ELSE pc' = "assert_failed" /\ result' = result
    /\ last' = "run_return"
    /\ UNCHANGED <<name, body, is_rec, is_shadowed, stack, todo, rvars>>

Next ==
    \/ visit_block
    \/ pop_scope
    \/ visit_name
    \/ visit_literal
    \/ visit_let_bind
    \/ visit_fn_def
    \/ visit_call
    \/ visit_cond
    \/ run_return

Spec == Init /\ [][Next]_vars

\* ------------------------------------------------------------------ the pipeline

\* The recursion checker's variables while only the pipeline is running.
CheckerIdle ==
    /\ name = "f"
    /\ body = <<>>
    /\ is_rec = FALSE
    /\ is_shadowed = FALSE
    /\ stack = <<>>
    /\ todo = <<>>
    /\ pc = "idle"
    /\ result = "none"
    /\ last = "none"

\* run(input) before its first statement.
RunInit ==
    /\ \/ input = [ok |-> FALSE, prog |-> <<>>]
       \/ \E i \in 1..Len(Programs) : input = [ok |-> TRUE, prog |-> Programs[i]]
    /\ stage = "parse"
    /\ ast = <<>>
    /\ mir = MirUnit
    /\ lir = LirLit(TUnit, 0)
    /\ res = Pending
    /\ ran = <<>>
    /\ CheckerIdle

\* let ast = parser::parse(input)?;
parse ==
    /\ stage = "parse"
    /\ ran' = Append(ran, "parse")
    /\ stage' = after_parse(input.ok)
    /\ IF input.ok
       THEN ast' = input.prog /\ res' = res
       ELSE ast' = ast /\ res' = Err([tag |-> "Parse"])
    /\ UNCHANGED <<input, mir, lir, cvars>>

\* let mir = mir::Term::from_ast(ast)?;
run_from_ast ==
    /\ stage = "from_ast"
    /\ ran' = Append(ran, "from_ast")
    /\ LET m == from_ast(ast)
       IN /\ stage' = after_from_ast(m.ok)
          /\ IF m.ok
             THEN mir' = m.term /\ res' = res
             ELSE mir' = mir /\ res' = Err(m.err)
    /\ UNCHANGED <<input, ast, lir, cvars>>

\* let _ty = ty::ty_check(&mir)?;
run_ty_check ==
    /\ stage = "ty_check"
    /\ ran' = Append(ran, "ty_check")
    /\ LET t == ty_check(mir)
       IN /\ stage' = after_ty_check(t.ok)
          /\ res' = IF t.ok THEN res ELSE Err(t.err)
    /\ UNCHANGED <<input, ast, mir, lir, cvars>>

\* let lir = lir::Term::from_mir(mir);
run_from_mir ==
    /\ stage = "from_mir"
    /\ ran' = Append(ran, "from_mir")
    /\ lir' = from_mir(mir)
    /\ stage' = "evaluate"
    /\ UNCHANGED <<input, ast, mir, res, cvars>>

\* let res = Machine::default().evaluate(lir); Ok(res)
run_evaluate ==
    /\ stage = "evaluate"
    /\ ran' = Append(ran, "evaluate")
    /\ res' = Ok(evaluate(lir))
    /\ stage' = "returned"
    /\ UNCHANGED <<input, ast, mir, lir, cvars>>

RunNext ==
    \/ parse
    \/ run_from_ast
    \/ run_ty_check
    \/ run_from_mir
    \/ run_evaluate

SpecRun == RunInit /\ [][RunNext]_vars

\* ------------------------------------------------------------------ shadowing, declaratively

\* Positions of a body: the paths (child indices from the body block down) of its nodes.
RECURSIVE PathsOf(_)
PathsOf(blk) ==
    UNION {{<<i>>} \cup {<<i>> \o p : p \in PathsOf(blk[i].sub)} : i \in 1..Len(blk)}

RECURSIVE NodeAt(_, _)
NodeAt(blk, p) == IF Len(p) = 1 THEN blk[p[1]] ELSE NodeAt(blk[p[1]].sub, Tail(p))

IsPrefix(q, p) == Len(q) <= Len(p) /\ SubSeq(p, 1, Len(q)) = q

\* q is met no later than p by a traversal that visits a node before its children
\* and the children from left to right.
Before(q, p) ==
    \/ IsPrefix(q, p)
    \/ \E i \in 1..Len(q) :
          /\ i <= Len(p)
          /\ SubSeq(q, 1, i - 1) = SubSeq(p, 1, i - 1)
          /\ q[i] < p[i]

\* The nodes that own a block: a function definition (its body) and a block of a Cond.
OpensScope(nd) == nd.kind \in {"FnDef", "Block"}

\* The block a node stands in, named by the path of the block's owner (<<>>: the body).
ScopeOf(blk, q) ==
    LET owners == {k \in 1..(Len(q) - 1) : OpensScope(NodeAt(blk, SubSeq(q, 1, k)))}
    IN IF owners = {} THEN <<>>
       ELSE SubSeq(q, 1, CHOOSE k \in owners : \A j \in owners : j <= k)

\* The binders of the target: let-bindings and function definitions of that name.
Binders(blk, target) ==
    {q \in PathsOf(blk) : NodeAt(blk, q).kind \in {"LetBind", "FnDef"}
                          /\ NodeAt(blk, q).name = target}

\* The places where the target name is written: a bare name, a parameter, a binder.
Mentions(blk, target) ==
    {p \in PathsOf(blk) :
        LET nd == NodeAt(blk, p)
        IN \/ nd.kind \in {"Name", "LetBind", "FnDef"} /\ nd.name = target
           \/ nd.kind = "FnDef" /\ \E i \in 1..Len(nd.args) : nd.args[i] = target}

\* The binder at q shadows the target at p: p comes at or after the binder, inside
\* the block the binder stands in.
Shadows(blk, q, p) == Before(q, p) /\ IsPrefix(ScopeOf(blk, q), p)

HasUnshadowed(blk, target) ==
    \E p \in Mentions(blk, target) :
        ~ \E q \in Binders(blk, target) : Shadows(blk, q, p)

\* The shadowed status of every scope that is open: the scopes suspended on the
\* stack (outermost first) followed by the current one.
flags == stack \o <<is_shadowed>>

\* The pop_scope frames still pending: the blocks entered and not yet exited.
OpenBlocks == Cardinality({i \in 1..Len(todo) : todo[i].op = "pop_scope"})

\* ------------------------------------------------------------------ claims

\* C1: when run returns, its result is true exactly if the body mentions the target
\* name at a place that no let-binding or function definition of that name shadows.
C1_RunIffUnshadowed == pc = "done" => result = HasUnshadowed(body, name)

C1_Witness ==
    /\ pc = "done"
    /\ result = FALSE
    /\ \E p \in PathsOf(body) : NodeAt(body, p) = NameNode(name)

\* C4: the pop_scope that ends a block visit leaves is_shadowed at the value it had
\* when that block was entered.
C4_BlockRestoresShadowed == [][pop_scope => is_shadowed' = Head(todo).arg]_vars

C4_Witness ==
    /\ last = "pop_scope"
    /\ Len(stack) = 1
    /\ Len(todo) = 1
    /\ ~is_shadowed
    /\ Binders(body, name) # {}

\* C5: the assertion of run never fails; whenever the traversal has finished the
\* scope stack is empty.
C5_StackEmptyAtEnd == pc # "assert_failed" /\ (todo = <<>> => stack = <<>>)

C5_Witness ==
    /\ pc = "done"
    /\ \E p \in PathsOf(body) : OpensScope(NodeAt(body, p))

\* C7: a let-binding or function definition sets is_shadowed exactly if it binds the
\* target and otherwise leaves it alone; a scope that is shadowed stays shadowed for
\* as long as it is open.
C7_BinderShadows ==
    [][/\ (visit_let_bind \/ visit_fn_def)
            => is_shadowed' = (is_shadowed \/ Head(todo).arg.name = name)
       /\ \A i \in 1..Len(flags') : (i <= Len(flags) /\ flags[i]) => flags'[i]]_vars

C7_Witness ==
    /\ last = "visit_name"
    /\ is_shadowed
    /\ ~stack[Len(stack)]
    /\ Len(stack) >= 2
    /\ ~is_rec

\* C8: entering a block pushes is_shadowed and leaves it unchanged, and no step taken
\* inside a block that was entered shadowed changes is_rec.
C8_NestedInheritsShadow ==
    [][/\ visit_block => (stack' = Append(stack, is_shadowed) /\ is_shadowed' = is_shadowed)
       /\ (\E i \in 1..Len(stack) : stack[i]) => is_rec' = is_rec]_vars

C8_Witness ==
    /\ last = "visit_name"
    /\ \E i \in 1..Len(stack) : stack[i]
    /\ \E p \in PathsOf(body) : Len(p) >= 2 /\ NodeAt(body, p) = NameNode(name)

\* C9: pop_scope never finds the stack empty, the stack is as long as the number of
\* blocks entered and not yet exited, and only visit_block (its push_scope and its
\* pop_scope) changes the stack.
C9_PopNeverPanics ==
    /\ [](pc # "pop_panicked" /\ Len(stack) = OpenBlocks)
    /\ [][stack' # stack => (visit_block \/ pop_scope)]_vars

C9_Witness == last = "pop_scope" /\ Len(stack) = 2

\* C10: is_rec starts false, never goes back from true to false, and is what run returns.
C10_IsRecMonotone ==
    /\ ~is_rec
    /\ [][is_rec => is_rec']_vars
    /\ [](pc = "done" => result = is_rec)

C10_Witness == is_rec /\ is_shadowed /\ last = "visit_let_bind"

\* ------------------------------------------------------------------ claims about run

TypeChecked == Len(ran) >= 3

C3_FirstFailureEndsRun ==
    /\ [](/\ IsPrefix(ran, Stages)
          /\ stage # "returned" => (res = Pending /\ stage = Stages[Len(ran) + 1])
          /\ stage = "returned" => res # Pending
          /\ res.state = "err" =>
                /\ stage = "returned"
                /\ Len(ran) <= 3
                /\ (res.err.tag = "Parse") = (ran = <<"parse">>)
          /\ res.state = "ok" => ran = Stages)
    /\ [][res.state # "err"]_vars

C3_Witness ==
    /\ stage = "returned"
    /\ res.state = "err"
    /\ res.err.tag = "Mismatch"
    /\ ran = <<"parse", "from_ast", "ty_check">>

\* The verdict of the type checker on a node standing after the statements pre.
TypeAfter(pre, nd) == ty_check(from_ast(pre \o <<nd>>).term)

\* The parameter types of a function type, outermost first.
RECURSIVE ParamTys(_)
ParamTys(t) == IF t.tag = "Arrow" THEN <<t.from>> \o ParamTys(t.to) ELSE <<>>

\* The verdict on the body of a function definition standing after pre, its
\* parameters (and, for fn rec, its own name at the declared type) in scope.
BodyTy(pre, d) ==
    LET ps == IF d.kind = "FnRecDef"
              THEN <<Binding(d.name[1], fn_ty(d.params, d.ret[1]))>> \o d.params
              ELSE d.params
        v == TypeAfter(pre, AstFnDef(<<>>, ps, d.body, <<>>))
        RECURSIVE Strip(_, _)
        Strip(t, n) == IF n = 0 THEN t ELSE Strip(t.to, n - 1)
    IN IF v.ok THEN TOk(Strip(v.ty, Len(ps))) ELSE v

\* C6: when the last statement of a type-checked program is a call whose callee has
\* a function type, the arguments are checked in order against the parameter types:
\* the first argument that is ill-typed or whose type A differs from its parameter
\* type P decides, with the argument's own error or Mismatch{expected: P, found: A};
\* if every argument agrees the call is accepted, and an argument beyond the last
\* parameter is rejected.  A callee that is not a function is rejected with
\* ExpectedFn.  When the last statement is a function with a declared return type R
\* whose body has another type B, the error is Mismatch{expected: R, found: B}.
C6_CallArgumentMismatch ==
    LET prog == input.prog
        lst == prog[Len(prog)]
        pre == SubSeq(prog, 1, Len(prog) - 1)
        CallCase ==
            LET c == TypeAfter(pre, lst.callee)
                P == ParamTys(c.ty)
                A == [i \in 1..Len(lst.args) |-> TypeAfter(pre, lst.args[i])]
                stops == {i \in 1..Len(lst.args) :
                             i > Len(P) \/ ~A[i].ok \/ A[i].ty # P[i]}
                k == CHOOSE i \in stops : \A j \in stops : i <= j
            IN IF ~c.ok THEN res = Err(c.err)
               ELSE IF c.ty.tag # "Arrow" THEN res = Err(ExpectedFn(c.ty))
               ELSE IF stops = {} THEN res.state # "err"
               ELSE IF k > Len(P) THEN res.state = "err"
               ELSE IF ~A[k].ok THEN res = Err(A[k].err)
               ELSE res = Err(Mismatch(P[k], A[k].ty))
        FnCase ==
            LET b == BodyTy(pre, lst)
            IN IF ~b.ok THEN res = Err(b.err)
               ELSE IF b.ty # lst.ret[1] THEN res = Err(Mismatch(lst.ret[1], b.ty))
               ELSE res.state # "err"
    IN (input.ok /\ TypeChecked /\ TypeAfter(pre, AstLiteral(TInt, 1)).ok) =>
          /\ lst.kind = "Call" => CallCase
          /\ (lst.kind \in {"FnDef", "FnRecDef"} /\ lst.ret # <<>>) => FnCase

\* A two-parameter function called with a first argument of the right type and a
\* second of the wrong one.
C6_Witness ==
    /\ res = Err(Mismatch(TBool, TInt))
    /\ Len(input.prog) = 2
    /\ input.prog[1].kind = "FnDef"
    /\ Len(input.prog[1].params) = 2
    /\ input.prog[2] = AstCall(AstName("f"), <<AstLiteral(TInt, 1), AstLiteral(TInt, 1)>>)

====
